---- MODULE Spec2Model ----
(***************************************************************************)
(* Model of the neo4j-mcp Connection Manager (Neo4jService), its value     *)
(* normalizer (transformValue), the error helper (createErrorResponse) and *)
(* the MCP tool handlers that wrap them.                                   *)
(*                                                                         *)
(* A tool invocation occupies a call slot.  An async method is split at    *)
(* its await points: the step that starts a call runs the synchronous      *)
(* prefix up to the first await, and one step per await resumes it with    *)
(* the awaited driver call either resolved or rejected.  The driver is the *)
(* environment: each of its calls may fail with any error of DriverErrors. *)
(*                                                                         *)
(* Conventions: JavaScript null/undefined is the string Null; an absent    *)
(* object (this.config === null, this.driver === null) is NullConfig / 0;  *)
(* a template string `prefix${x}` is the pair <<prefix, x>>; new Date() is  *)
(* the serial number of the call that takes it (0 is a null timestamp).    *)
(***************************************************************************)
EXTENDS Integers, Sequences, FiniteSets, TLC

\* ---------------------------------------------------------------- bounds
MaxCalls == 3
NumSlots == 2

\* ------------------------------------------------------------- constants
Null == "<undefined>"
NullConfig == [null |-> TRUE]
NoArg == [omitted |-> TRUE]
NoValue == [kind |-> "none"]
Void == [kind |-> "void"]

Calls == 1..NumSlots

Falsy(x) == x = Null \/ x = ""

\* JavaScript  a || b  on strings
OrElse(a, b) == IF Falsy(a) THEN b ELSE a

UriSet == {"", "bolt://a"}
UsernameSet == {Null, "neo4j"}
PasswordSet == {"", "pw1", "pw2"}
DatabaseSet == {Null, "db1"}

Neo4jConfig == [uri : UriSet, username : UsernameSet, password : PasswordSet, database : DatabaseSet]

\* the process environment: the connection defaults and the environment mode
EnvSet == [NEO4J_URI : {Null}, NEO4J_USERNAME : {Null}, NEO4J_PASSWORD : {"pw1"}, NEO4J_DATABASE : {Null}, NODE_ENV : {"production", "development"}]

\* errors the driver (or the runtime) can throw: message, code, stack
DriverErrors == {[message |-> "ServiceUnavailable", code |-> "Neo.ClientError", stack |-> "at driver"], [message |-> "boom", code |-> Null, stack |-> "at session"]}

TypeErrorNullConfig == [message |-> "Cannot read properties of null", code |-> Null, stack |-> "at connect"]

VARIABLES env, overlap, input, normalized, ncalls, driver, config, connectionStatus, lastError, connectionTime, handles, sessions, pc, op, arg, ret, outcome, resp, sess, hcl, pend

envv == <<env, overlap, input, normalized>>
svc == <<driver, config, connectionStatus, lastError, connectionTime>>
drv == <<handles, sessions>>
locals == <<sess, hcl, pend>>
callv == <<ncalls, pc, op, arg, ret, outcome, resp>>
vars == <<env, overlap, input, normalized, ncalls, driver, config, connectionStatus, lastError, connectionTime, handles, sessions, pc, op, arg, ret, outcome, resp, sess, hcl, pend>>

\* ---------------------------------------------------- utils/errorHandler
createErrorResponse(message, code, stack) ==
  [kind |-> "error",
   error |-> message,
   code |-> IF Falsy(code) THEN Null ELSE code,
   stack |-> IF ~Falsy(stack) /\ env.NODE_ENV # "production" THEN stack ELSE Null]

isErrorResponse(response) == response.kind = "error"

\* mutant of CaughtError: the provider code is dropped
CaughtErrorNoCode(prefix, text, e) ==
  [kind |-> "error", error |-> <<prefix, text>>, code |-> Null, stack |-> e.stack]

\* the object literal { error, code: error.code, stack: error.stack } of the catch blocks
CaughtError(prefix, text, e) ==
  [kind |-> "error", error |-> <<prefix, text>>, code |-> e.code, stack |-> e.stack]

\* ------------------------------------------------------------ the service
getDefaultConfig ==
  [uri |-> OrElse(env.NEO4J_URI, "neo4j://localhost:7687"),
   username |-> OrElse(env.NEO4J_USERNAME, "neo4j"),
   password |-> OrElse(env.NEO4J_PASSWORD, ""),
   database |-> env.NEO4J_DATABASE]

\* mutant of StatusOf: the stored config is returned unmasked
StatusOfWithPassword(st, cfg, time, err) ==
  [status |-> st, config |-> cfg, connectionTime |-> time, lastError |-> err]

StatusOf(st, cfg, time, err) ==
  [status |-> st,
   config |-> IF cfg # NullConfig THEN [uri |-> cfg.uri, username |-> cfg.username, database |-> cfg.database] ELSE NullConfig,
   connectionTime |-> time,
   lastError |-> err]

getStatus == StatusOf(connectionStatus, config, connectionTime, lastError)

\* --------------------------------------------------------- driver values
\* A value returned by the driver is a tagged record: plain JavaScript
\* values (null, bool, num, str, list, map) and the driver's own classes
\* (int = neo4j Integer, node, rel, path).
NullV == [t |-> "null"]
Bool(b) == [t |-> "bool", v |-> b]
Num(n) == [t |-> "num", v |-> n]
Str(x) == [t |-> "str", v |-> x]
Integer(n) == [t |-> "int", v |-> n]
List(items) == [t |-> "list", items |-> items]
Map(fields) == [t |-> "map", fields |-> fields]
Node(identity, labels, properties) == [t |-> "node", identity |-> identity, labels |-> labels, properties |-> properties]
Relationship(identity, type, start, end, properties) == [t |-> "rel", identity |-> identity, type |-> type, start |-> start, end |-> end, properties |-> properties]
PathSegment(start, relationship, end) == [start |-> start, relationship |-> relationship, end |-> end]
Path(segments) == [t |-> "path", segments |-> segments]

EmptyObject == [k \in {} |-> NullV]

\* Integer.toNumber()
toNumber(i) == Num(i.v)

\* the value of a missing member, and the TypeError raised when a member of
\* null or undefined is read or a value that is no function is called
Undefined == [t |-> "undefined"]
Fault == [t |-> "fault"]

\* value[k]: a field of a driver class instance or an own key of an object
Member(value, k) ==
  IF value.t = "map"
  THEN (IF k \in DOMAIN value.fields THEN value.fields[k] ELSE Undefined)
  ELSE (IF k \in DOMAIN value THEN value[k] ELSE Undefined)

TypeErrorName == "<TypeError>"

\* value.constructor.name: the class of a driver object, the built-in class
\* of a plain value, or whatever an own key "constructor" of an object holds
ConstructorName(value) ==
  IF value.t = "node" THEN "Node"
  ELSE IF value.t = "rel" THEN "Relationship"
  ELSE IF value.t = "path" THEN "Path"
  ELSE IF value.t = "map" /\ "constructor" \in DOMAIN value.fields
  THEN LET ctor == value.fields["constructor"]
       IN IF ctor.t \in {"null", "undefined"} THEN TypeErrorName
          ELSE IF Member(ctor, "name").t = "str" THEN Member(ctor, "name").v
          ELSE Null
  ELSE IF value.t = "map" THEN "Object"
  ELSE IF value.t = "list" THEN "Array"
  ELSE IF value.t = "str" THEN "String"
  ELSE IF value.t = "num" THEN "Number"
  ELSE "Boolean"

\* { ...value.properties }
Properties(value) ==
  IF value.t = "map"
  THEN (IF Member(value, "properties").t = "map" THEN Member(value, "properties").fields ELSE EmptyObject)
  ELSE value.properties

\* mutant of NodeObject: the properties are copied last and win over id and labels
NodeObjectPropertiesLast(value) ==
  IF Member(value, "identity").t # "int" THEN Fault
  ELSE Map(Properties(value) @@ ("id" :> toNumber(Member(value, "identity"))) @@ ("labels" :> Member(value, "labels")))

\* the Node branch: the properties, then id and labels assigned over them
NodeObject(value) ==
  IF Member(value, "identity").t # "int" THEN Fault
  ELSE Map(("id" :> toNumber(Member(value, "identity"))) @@ ("labels" :> Member(value, "labels")) @@ Properties(value))

\* mutant of RelationshipObject: endNodeId is taken from the start node
RelationshipObjectEndFromStart(value) ==
  IF \E k \in {"identity", "start", "end"} : Member(value, k).t # "int" THEN Fault
  ELSE Map(("id" :> toNumber(Member(value, "identity"))) @@ ("type" :> Member(value, "type"))
           @@ ("startNodeId" :> toNumber(Member(value, "start"))) @@ ("endNodeId" :> toNumber(Member(value, "start")))
           @@ Properties(value))

\* the Relationship branch: the properties, then id, type, startNodeId and
\* endNodeId assigned over them
RelationshipObject(value) ==
  IF \E k \in {"identity", "start", "end"} : Member(value, k).t # "int" THEN Fault
  ELSE Map(("id" :> toNumber(Member(value, "identity"))) @@ ("type" :> Member(value, "type"))
           @@ ("startNodeId" :> toNumber(Member(value, "start"))) @@ ("endNodeId" :> toNumber(Member(value, "end")))
           @@ Properties(value))

\* value.segments as a sequence of [start, relationship, end]; a segment that
\* is null or undefined cannot be read
Segments(value) ==
  IF value.t = "path" THEN value.segments
  ELSE LET items == Member(value, "segments").items
       IN [i \in 1..Len(items) |->
             IF items[i].t \in {"null", "undefined"} THEN Fault
             ELSE PathSegment(Member(items[i], "start"), Member(items[i], "relationship"), Member(items[i], "end"))]

\* a TypeError raised while an element is computed leaves the whole call
Settle(v) ==
  IF v.t = "list" /\ \E i \in 1..Len(v.items) : v.items[i] = Fault THEN Fault
  ELSE IF v.t = "map" /\ \E k \in DOMAIN v.fields : v.fields[k] = Fault THEN Fault
  ELSE v

RECURSIVE transformValue(_)
transformValue(value) ==
  IF value.t \in {"null", "undefined"} THEN value
  ELSE IF value.t = "int" THEN toNumber(value)
  ELSE IF ConstructorName(value) = TypeErrorName THEN Fault
  ELSE IF ConstructorName(value) = "Node" THEN NodeObject(value)
  ELSE IF ConstructorName(value) = "Relationship" THEN RelationshipObject(value)
  ELSE IF ConstructorName(value) = "Path"
  THEN IF value.t # "path" /\ Member(value, "segments").t # "list" THEN Fault
       ELSE Settle(Map("segments" :> Settle(List([i \in 1..Len(Segments(value)) |->
              IF Segments(value)[i] = Fault THEN Fault
              ELSE Settle(Map(("start" :> transformValue(Segments(value)[i].start))
                              @@ ("relationship" :> transformValue(Segments(value)[i].relationship))
                              @@ ("end" :> transformValue(Segments(value)[i].end))))]))))
  ELSE IF value.t = "list"
  THEN Settle(List([i \in 1..Len(value.items) |-> transformValue(value.items[i])]))
  ELSE IF value.t = "map"
  THEN Settle(Map([key \in DOMAIN value.fields |-> transformValue(value.fields[key])]))
  ELSE value

\* records.map(record => obj) of executeQuery: one plain object per record
TransformRecords(records) ==
  [i \in 1..Len(records) |-> [key \in DOMAIN records[i] |-> transformValue(records[i][key])]]

\* ------------------------------------------------------ MCP tool handlers
Text(t) == [type |-> "text", text |-> t]

ConnectToolResponse(result) ==
  IF isErrorResponse(result)
  THEN <<Text(<<"Error connecting to Neo4j: ", result.error>>)>>
  ELSE <<Text(<<"Successfully connected to Neo4j database">>)>>

ConnectWithEnvToolResponse(result) ==
  IF isErrorResponse(result)
  THEN <<Text(<<"Error connecting to Neo4j: ", result.error>>)>>
  ELSE <<Text(<<"Successfully connected to Neo4j database at ", getDefaultConfig.uri>>),
         Text(<<"Using database: ", OrElse(getDefaultConfig.database, "default")>>)>>

QueryToolResponse(result) ==
  IF isErrorResponse(result)
  THEN <<Text(<<"Error executing query: ", result.error>>),
         Text(<<"Error code: ", OrElse(result.code, "N/A")>>)>>
       \o (IF ~Falsy(result.stack) THEN <<Text(<<"Stack trace: ", result.stack>>)>> ELSE <<>>)
  ELSE <<Text(<<"Query executed successfully. Found records: ", Len(result.records)>>),
         [type |-> "resource", text |-> <<"Query Results">>, payload |-> result.records],
         Text(<<"Query time: ", result.summary.resultAvailableAfter>>)>>

GetDatabaseInfoToolResponse(result) ==
  IF isErrorResponse(result)
  THEN <<Text(<<"Error retrieving database info: ", result.error>>)>>
       \o (IF ~Falsy(result.code) THEN <<Text(<<"Error code: ", result.code>>)>> ELSE <<>>)
       \o (IF ~Falsy(result.stack) THEN <<Text(<<"Stack trace: ", result.stack>>)>> ELSE <<>>)
  ELSE <<Text(<<"Neo4j Database Information:">>),
         Text(<<"Version: ", result.version, result.edition>>),
         Text(<<"Database: ", result.database>>),
         Text(<<"Node count: ", result.nodeCount>>),
         Text(<<"Relationship count: ", result.relationshipCount>>),
         Text(<<"Available labels: ", result.labels>>),
         Text(<<"Relationship types: ", result.relationshipTypes>>)>>

GetConnectionStatusToolResponse(status) ==
  <<Text(<<"Connection Status: ", IF status.status = "connected" THEN "Connected" ELSE "Disconnected">>)>>
  \o (IF status.status = "connected"
      THEN <<Text(<<"Connected to: ", IF status.config = NullConfig THEN "Unknown" ELSE OrElse(status.config.uri, "Unknown")>>),
             Text(<<"Database: ", IF status.config = NullConfig THEN "default" ELSE OrElse(status.config.database, "default")>>),
             Text(<<"Connected since: ", IF status.connectionTime # 0 THEN status.connectionTime ELSE "Unknown">>)>>
      ELSE <<>>)
  \o (IF ~Falsy(status.lastError) THEN <<Text(<<"Last error: ", status.lastError>>)>> ELSE <<>>)

DisconnectToolResponse == <<Text(<<"Disconnected from Neo4j database">>)>>

ToolResponse(tool, result) ==
  CASE tool = "Connect" -> ConnectToolResponse(result)
    [] tool = "ConnectWithEnv" -> ConnectWithEnvToolResponse(result)
    [] tool = "Query" -> QueryToolResponse(result)
    [] tool = "GetDatabaseInfo" -> GetDatabaseInfoToolResponse(result)
    [] tool = "GetConnectionStatus" -> GetConnectionStatusToolResponse(result)
    [] tool = "Disconnect" -> DisconnectToolResponse

\* ---------------------------------------------------------- call plumbing
Idle(c) == pc[c] = "idle"

\* a tool invocation takes the lowest free slot; invocations overlap only
\* when the transport dispatches them concurrently
CanStart(c) ==
  /\ ncalls < MaxCalls
  /\ Idle(c)
  /\ \A d \in Calls : d < c => ~Idle(d)
  /\ overlap \/ \A d \in Calls : Idle(d)

\* the locals of a call die with it
EndLocals(c) ==
  /\ sess' = [sess EXCEPT ![c] = 0]
  /\ hcl' = [hcl EXCEPT ![c] = 0]
  /\ pend' = [pend EXCEPT ![c] = NoValue]

\* the handler's promise resolves with the tool response built from result r
Finish(c, tool, r) ==
  /\ pc' = [pc EXCEPT ![c] = "idle"]
  /\ ret' = [ret EXCEPT ![c] = r]
  /\ outcome' = [outcome EXCEPT ![c] = "returned"]
  /\ resp' = [resp EXCEPT ![c] = ToolResponse(tool, r)]
  /\ EndLocals(c)

\* the service method rejects: the fault escapes the method uncaught
Raise(c, e) ==
  /\ pc' = [pc EXCEPT ![c] = "idle"]
  /\ ret' = [ret EXCEPT ![c] = [kind |-> "fault", error |-> e]]
  /\ outcome' = [outcome EXCEPT ![c] = "threw"]
  /\ resp' = [resp EXCEPT ![c] = <<>>]
  /\ EndLocals(c)

\* the call is suspended at an await: it has no result yet
Await(c, label) ==
  /\ pc' = [pc EXCEPT ![c] = label]
  /\ ret' = [ret EXCEPT ![c] = NoValue]
  /\ outcome' = [outcome EXCEPT ![c] = "none"]
  /\ resp' = [resp EXCEPT ![c] = <<>>]

Begin(c, tool, a) ==
  /\ CanStart(c)
  /\ ncalls' = ncalls + 1
  /\ op' = [op EXCEPT ![c] = tool]
  /\ arg' = [arg EXCEPT ![c] = a]

InitService ==
  /\ driver = 0
  /\ config = NullConfig
  /\ connectionStatus = "disconnected"
  /\ lastError = Null
  /\ connectionTime = 0

InitCalls ==
  /\ ncalls = 0
  /\ handles = <<>>
  /\ sessions = <<>>
  /\ pc = [c \in Calls |-> "idle"]
  /\ op = [c \in Calls |-> "none"]
  /\ arg = [c \in Calls |-> NoValue]
  /\ ret = [c \in Calls |-> NoValue]
  /\ outcome = [c \in Calls |-> "none"]
  /\ resp = [c \in Calls |-> <<>>]
  /\ sess = [c \in Calls |-> 0]
  /\ hcl = [c \in Calls |-> 0]
  /\ pend = [c \in Calls |-> NoValue]

Init ==
  /\ env \in EnvSet
  /\ overlap = FALSE
  /\ input = NullV
  /\ normalized = NoValue
  /\ InitService
  /\ InitCalls

\* ---------------------------------------------------------------- driver
\* driver.close() settles: the handle's pool is shut on success; a rejected
\* close may or may not have shut it
CloseHandle(hs, h, closed) == IF closed THEN [hs EXCEPT ![h].open = FALSE] ELSE hs

NewSession(h, db, q) == [handle |-> h, database |-> db, closes |-> 0, queries |-> <<q>>]

\* mutant of CloseSession: the finally block does not close the session
CloseSessionSkipped(ss, s) == ss

\* session.close() is called on session s
CloseSession(ss, s) == [ss EXCEPT ![s].closes = @ + 1]

\* session.run(q) is called on session s
RunOn(ss, s, q) == [ss EXCEPT ![s].queries = Append(@, q)]

\* a query can succeed only on a handle whose pool is open
CanSucceed(s) == handles[sessions[s].handle].open

\* ---------------------------------------------------------------- connect
\* mutant of RequiredFieldError: the password is not checked
RequiredFieldErrorNoPassword(cfg) ==
  IF Falsy(cfg.uri) THEN <<"Neo4j URI is required">>
  ELSE IF Falsy(cfg.username) THEN <<"Neo4j username is required">>
  ELSE <<>>

RequiredFieldError(cfg) ==
  IF Falsy(cfg.uri) THEN <<"Neo4j URI is required">>
  ELSE IF Falsy(cfg.username) THEN <<"Neo4j username is required">>
  ELSE IF Falsy(cfg.password) THEN <<"Neo4j password is required">>
  ELSE <<>>

\* the outer catch of connect
ConnectCatch(c, tool, e) ==
  /\ connectionStatus' = "error"
  /\ lastError' = e.message
  /\ Finish(c, tool, CaughtError("Failed to connect to Neo4j: ", e.message, e))

\* lines 62-80: create the driver, open the test session, start the test
\* query.  cfg is this.config as read here, hs the handle table so far.
ConnectOpen(c, tool, cfg, hs) ==
  IF cfg = NullConfig
  THEN /\ ConnectCatch(c, tool, TypeErrorNullConfig)
       /\ handles' = hs
       /\ UNCHANGED <<driver, connectionTime, sessions>>
  ELSE \/ \E e \in DriverErrors :
            /\ ConnectCatch(c, tool, e)
            /\ handles' = hs
            /\ UNCHANGED <<driver, connectionTime, sessions>>
       \/ /\ handles' = Append(hs, [open |-> TRUE, cfg |-> cfg])
          /\ driver' = Len(hs) + 1
          /\ \/ \E e \in DriverErrors :
                  /\ ConnectCatch(c, tool, e)
                  /\ UNCHANGED <<connectionTime, sessions>>
             \/ /\ sessions' = Append(sessions, NewSession(Len(hs) + 1, cfg.database, "RETURN 1 as test"))
                /\ sess' = [sess EXCEPT ![c] = Len(sessions) + 1]
                /\ hcl' = [hcl EXCEPT ![c] = 0]
                /\ Await(c, "connect_run")
                /\ UNCHANGED <<connectionStatus, lastError, connectionTime, pend>>

\* mutant of HasExistingDriver: the existing driver is never closed
HasExistingDriverIgnored == FALSE

\* line 57: `if (this.driver)` before reconnecting
HasExistingDriver == driver # 0

\* the configs a caller passes: every complete config, the incomplete ones
\* (any subset of the required fields empty or missing), or none at all
ConnectArgs ==
  {a \in Neo4jConfig : RequiredFieldError(a) # <<>> => (a.database = Null /\ a.password # "pw2")} \cup {NoArg}

ConnectStart(c, a) ==
  LET tool == IF a = NoArg THEN "ConnectWithEnv" ELSE "Connect"
      cfg == IF a = NoArg THEN getDefaultConfig ELSE a
  IN /\ Begin(c, tool, a)
     /\ config' = cfg
     /\ UNCHANGED envv
     /\ IF RequiredFieldError(cfg) # <<>>
        THEN /\ Finish(c, tool, createErrorResponse(RequiredFieldError(cfg), Null, Null))
             /\ UNCHANGED <<driver, connectionStatus, lastError, connectionTime, drv>>
        ELSE IF HasExistingDriver
        THEN /\ hcl' = [hcl EXCEPT ![c] = driver]
             /\ Await(c, "connect_close")
             /\ UNCHANGED <<driver, connectionStatus, lastError, connectionTime, drv, sess, pend>>
        ELSE ConnectOpen(c, tool, cfg, handles)

\* `await this.driver.close()` of connect settles
ConnectAfterClose(c) ==
  /\ pc[c] = "connect_close"
  /\ UNCHANGED <<envv, ncalls, op, arg, config>>
  /\ \/ ConnectOpen(c, op[c], config, CloseHandle(handles, hcl[c], TRUE))
     \/ \E e \in DriverErrors, closed \in BOOLEAN :
          /\ ConnectCatch(c, op[c], e)
          /\ handles' = CloseHandle(handles, hcl[c], closed)
          /\ UNCHANGED <<driver, connectionTime, sessions>>

\* mutant of MarkConnected: the last error is not cleared
MarkConnectedKeepsError ==
  /\ connectionStatus' = "connected"
  /\ connectionTime' = ncalls
  /\ UNCHANGED lastError

\* lines 82-84: the test query succeeded
MarkConnected ==
  /\ connectionStatus' = "connected"
  /\ connectionTime' = ncalls
  /\ lastError' = Null

\* mutant of MarkTestFailed: the failure reason is not recorded
MarkTestFailedStatusOnly(e) ==
  /\ connectionStatus' = "error"
  /\ UNCHANGED lastError

\* lines 87-88: the test query failed with error e
MarkTestFailed(e) ==
  /\ connectionStatus' = "error"
  /\ lastError' = e.message

\* `await session.run('RETURN 1 as test')` settles; the finally block then
\* calls session.close()
ConnectAfterRun(c) ==
  /\ pc[c] = "connect_run"
  /\ UNCHANGED <<envv, ncalls, op, arg, driver, config, handles, sess, hcl>>
  /\ \/ /\ CanSucceed(sess[c])
        /\ MarkConnected
        /\ pend' = [pend EXCEPT ![c] = Void]
     \/ \E e \in DriverErrors :
          /\ MarkTestFailed(e)
          /\ pend' = [pend EXCEPT ![c] = CaughtError("Connection test failed: ", e.message, e)]
          /\ UNCHANGED connectionTime
  /\ sessions' = CloseSession(sessions, sess[c])
  /\ Await(c, "connect_sclose")

\* `await session.close()` of connect's finally settles; a rejection there
\* replaces the pending return and lands in the outer catch
ConnectAfterSessionClose(c) ==
  /\ pc[c] = "connect_sclose"
  /\ UNCHANGED <<envv, ncalls, op, arg, driver, config, connectionTime, drv>>
  /\ \/ /\ Finish(c, op[c], pend[c])
        /\ UNCHANGED <<connectionStatus, lastError>>
     \/ \E e \in DriverErrors : ConnectCatch(c, op[c], e)

\* ------------------------------------------------------------- disconnect
DisconnectStart(c) ==
  /\ Begin(c, "Disconnect", NoValue)
  /\ UNCHANGED <<envv, svc, drv>>
  /\ IF driver # 0
     THEN /\ hcl' = [hcl EXCEPT ![c] = driver]
          /\ Await(c, "disconnect_close")
          /\ UNCHANGED <<sess, pend>>
     ELSE Finish(c, "Disconnect", Void)

\* `await this.driver.close()` of disconnect settles
DisconnectAfterClose(c) ==
  /\ pc[c] = "disconnect_close"
  /\ UNCHANGED <<envv, ncalls, op, arg, sessions>>
  /\ \/ /\ handles' = CloseHandle(handles, hcl[c], TRUE)
        /\ driver' = 0
        /\ config' = NullConfig
        /\ connectionStatus' = "disconnected"
        /\ connectionTime' = 0
        /\ UNCHANGED lastError
        /\ Finish(c, "Disconnect", Void)
     \/ \E e \in DriverErrors, closed \in BOOLEAN :
          /\ handles' = CloseHandle(handles, hcl[c], closed)
          /\ Raise(c, e)
          /\ UNCHANGED svc

\* -------------------------------------------------------------- getStatus
GetConnectionStatus(c) ==
  /\ Begin(c, "GetConnectionStatus", NoValue)
  /\ Finish(c, "GetConnectionStatus", getStatus)
  /\ UNCHANGED <<envv, svc, drv>>

\* ----------------------------------------------------------- executeQuery
QuerySet == {"MATCH (n) RETURN n"}

\* what the driver can answer to a query: records (key -> driver value) and
\* the summary's two Integer timings
ResultSet ==
  {[records |-> <<>>, summary |-> [resultAvailableAfter |-> Integer(1), resultConsumedAfter |-> Integer(2)]],
   [records |-> <<[n |-> Integer(42)]>>, summary |-> [resultAvailableAfter |-> Integer(1), resultConsumedAfter |-> Integer(2)]],
   [records |-> <<[n |-> Node(Integer(7), List(<<Str("Person")>>), ("age" :> Integer(30)))]>>,
    summary |-> [resultAvailableAfter |-> Integer(1), resultConsumedAfter |-> Integer(2)]]}

QueryResponse(result) ==
  [kind |-> "query",
   records |-> TransformRecords(result.records),
   summary |-> [resultAvailableAfter |-> toNumber(result.summary.resultAvailableAfter).v,
                resultConsumedAfter |-> toNumber(result.summary.resultConsumedAfter).v]]

StateError(text) == [kind |-> "error", error |-> text, code |-> Null, stack |-> Null]

\* mutant of NotConnected: the status is not checked
NotConnectedUnchecked == FALSE

\* line 121: `if (this.connectionStatus !== 'connected')`
NotConnected == connectionStatus # "connected"

ExecuteQueryStart(c, q) ==
  /\ Begin(c, "Query", [query |-> q, params |-> Null])
  /\ UNCHANGED <<envv, svc, handles>>
  /\ IF driver = 0
     THEN /\ Finish(c, "Query", StateError(<<"Neo4j driver not initialized. Call connect() first.">>))
          /\ UNCHANGED sessions
     ELSE IF NotConnected
     THEN /\ Finish(c, "Query", StateError(<<"Not connected to Neo4j. Current status: ", connectionStatus>>))
          /\ UNCHANGED sessions
     ELSE \/ \E e \in DriverErrors :
               /\ Raise(c, e)
               /\ UNCHANGED sessions
          \/ /\ sessions' = Append(sessions, NewSession(driver, IF config = NullConfig THEN Null ELSE config.database, q))
             /\ sess' = [sess EXCEPT ![c] = Len(sessions) + 1]
             /\ Await(c, "query_run")
             /\ UNCHANGED <<hcl, pend>>

\* `await session.run(request.query, ...)` settles; the finally block then
\* calls session.close()
ExecuteQueryAfterRun(c) ==
  /\ pc[c] = "query_run"
  /\ UNCHANGED <<envv, ncalls, op, arg, svc, handles, sess, hcl>>
  /\ \/ /\ CanSucceed(sess[c])
        /\ \E result \in ResultSet : pend' = [pend EXCEPT ![c] = QueryResponse(result)]
     \/ \E e \in DriverErrors :
          pend' = [pend EXCEPT ![c] = CaughtError("Error executing Neo4j query: ", OrElse(e.message, "Unknown error"), e)]
  /\ sessions' = CloseSession(sessions, sess[c])
  /\ Await(c, "query_sclose")

\* `await session.close()` of the finally settles; a rejection there escapes
ExecuteQueryAfterSessionClose(c) ==
  /\ pc[c] = "query_sclose"
  /\ UNCHANGED <<envv, ncalls, op, arg, svc, drv>>
  /\ \/ Finish(c, "Query", pend[c])
     \/ \E e \in DriverErrors : Raise(c, e)

\* -------------------------------------------------------- getDatabaseInfo
\* mutant of InfoQueries: the counts are queried before the database name
InfoQueriesSwapped == <<"CALL dbms.components()", "MATCH (n) RETURN count", "CALL db.info()", "CALL db.labels()", "CALL db.relationshipTypes()">>

InfoQueries == <<"CALL dbms.components()", "CALL db.info()", "MATCH (n) RETURN count", "CALL db.labels()", "CALL db.relationshipTypes()">>

\* whether an administrative query answers with a record: the procedures
\* and aggregations of InfoQueries always yield exactly one
RowChoices == {TRUE}

\* the first record of each administrative query when the driver has one
InfoRow ==
  [version |-> "5.1", edition |-> "community", database |-> "neo4j", nodeCount |-> 3,
   relationshipCount |-> 2, labels |-> <<"Person">>, relationshipTypes |-> <<"KNOWS">>]

\* the `?.[0]?.get(..) || default` fallbacks
InfoDefault ==
  [version |-> "Unknown", edition |-> "Unknown", database |-> "Unknown", nodeCount |-> 0,
   relationshipCount |-> 0, labels |-> <<>>, relationshipTypes |-> <<>>]

InfoFields == <<{"version", "edition"}, {"database"}, {"nodeCount", "relationshipCount"}, {"labels"}, {"relationshipTypes"}>>

\* the locals assigned after query number i answered, with or without a row
InfoAssign(info, i, hasRow) ==
  [f \in DOMAIN info |-> IF f \in InfoFields[i] THEN (IF hasRow THEN InfoRow[f] ELSE InfoDefault[f]) ELSE info[f]]

GetDatabaseInfoStart(c) ==
  /\ Begin(c, "GetDatabaseInfo", NoValue)
  /\ UNCHANGED <<envv, svc, handles>>
  /\ IF driver = 0
     THEN /\ Finish(c, "GetDatabaseInfo", StateError(<<"Neo4j driver not initialized. Call connect() first.">>))
          /\ UNCHANGED sessions
     ELSE \/ \E e \in DriverErrors :
               /\ Raise(c, e)
               /\ UNCHANGED sessions
          \/ /\ sessions' = Append(sessions, NewSession(driver, IF config = NullConfig THEN Null ELSE config.database, InfoQueries[1]))
             /\ sess' = [sess EXCEPT ![c] = Len(sessions) + 1]
             /\ pend' = [pend EXCEPT ![c] = [kind |-> "info"] @@ InfoDefault]
             /\ Await(c, "info_run")
             /\ UNCHANGED hcl

\* one of the five `await session.run(...)` settles: the next query is
\* issued, or after the last one (or a failure) the finally calls close
GetDatabaseInfoAfterRun(c) ==
  LET i == Len(sessions[sess[c]].queries)
  IN /\ pc[c] = "info_run"
     /\ UNCHANGED <<envv, ncalls, op, arg, svc, handles, sess, hcl>>
     /\ \/ /\ CanSucceed(sess[c])
           /\ \E hasRow \in RowChoices : pend' = [pend EXCEPT ![c] = InfoAssign(@, i, hasRow)]
           /\ IF i < Len(InfoQueries)
              THEN /\ sessions' = RunOn(sessions, sess[c], InfoQueries[i + 1])
                   /\ Await(c, "info_run")
              ELSE /\ sessions' = CloseSession(sessions, sess[c])
                   /\ Await(c, "info_sclose")
        \/ \E e \in DriverErrors :
             /\ pend' = [pend EXCEPT ![c] = CaughtError("Error getting database info: ", OrElse(e.message, "Unknown error"), e)]
             /\ sessions' = CloseSession(sessions, sess[c])
             /\ Await(c, "info_sclose")

GetDatabaseInfoAfterSessionClose(c) ==
  /\ pc[c] = "info_sclose"
  /\ UNCHANGED <<envv, ncalls, op, arg, svc, drv>>
  /\ \/ Finish(c, "GetDatabaseInfo", pend[c])
     \/ \E e \in DriverErrors : Raise(c, e)

\* --------------------------------------------------------- specification
Next ==
  \E c \in Calls :
    \/ \E a \in ConnectArgs : ConnectStart(c, a)
    \/ ConnectAfterClose(c)
    \/ ConnectAfterRun(c)
    \/ ConnectAfterSessionClose(c)
    \/ \E q \in QuerySet : ExecuteQueryStart(c, q)
    \/ ExecuteQueryAfterRun(c)
    \/ ExecuteQueryAfterSessionClose(c)
    \/ GetDatabaseInfoStart(c)
    \/ GetDatabaseInfoAfterRun(c)
    \/ GetDatabaseInfoAfterSessionClose(c)
    \/ DisconnectStart(c)
    \/ DisconnectAfterClose(c)
    \/ GetConnectionStatus(c)

Spec == Init /\ [][Next]_vars

\* ------------------------------------------------- normalizer in isolation
MaxListLen == 2

Scalars == {NullV, Bool(TRUE), Num(1), Str("A"), Integer(42)}

PropertySet ==
  {EmptyObject,
   ("name" :> Str("A")),
   ("age" :> Integer(30)),
   ("id" :> Str("own")) @@ ("labels" :> Str("own")),
   ("tags" :> List(<<Integer(1)>>))}

NodeSet == {Node(Integer(7), labels, p) : labels \in {List(<<Str("Person")>>), List(<<Str("B"), Str("A")>>)}, p \in PropertySet}

RelationshipSet == {Relationship(Integer(3), Str("KNOWS"), Integer(1), Integer(2), p) : p \in PropertySet}

EndNodes == {Node(Integer(7), List(<<Str("Person")>>), p) : p \in {EmptyObject, ("age" :> Integer(30))}}

PathSet ==
  {Path(<<>>)} \cup
  {Path(<<PathSegment(a, r, b)>>) : a \in EndNodes, b \in EndNodes,
     r \in {Relationship(Integer(3), Str("KNOWS"), Integer(1), Integer(2), p) : p \in {EmptyObject, ("age" :> Integer(30))}}}

\* plain mappings, as a Cypher map literal yields them, with a key named
\* constructor
ConstructorKeyed ==
  {Map(("constructor" :> Map("name" :> Str("Path"))) @@ ("segments" :> List(<<>>))),
   Map(("constructor" :> Map("name" :> Str("Path"))) @@ ("segments" :> List(<<Map("start" :> Num(1))>>))),
   Map(("constructor" :> Map("name" :> Str("Node"))) @@ ("name" :> Str("A"))),
   Map("constructor" :> Map("name" :> Str("Relationship"))),
   Map("constructor" :> Map("name" :> Str("Car"))),
   Map("constructor" :> NullV),
   Map("constructor" :> Str("A"))}

Level0 == Scalars \cup NodeSet \cup RelationshipSet \cup PathSet \cup ConstructorKeyed

SeqsUpTo(S, n) == UNION {[1..k -> S] : k \in 0..n}

Level1 ==
  Level0
  \cup {List(items) : items \in SeqsUpTo(Scalars \cup EndNodes, MaxListLen)}
  \cup {List(<<x>>) : x \in Level0}
  \cup {Map("k" :> x) : x \in Level0}
  \cup {Map(("k" :> x) @@ ("id" :> y)) : x \in Scalars, y \in Scalars}

\* every value the driver can hand to transformValue, nested to depth two
DriverValues ==
  Level1 \cup {List(<<x>>) : x \in Level1} \cup {Map("k" :> x) : x \in Level1}

InitNorm ==
  /\ env \in EnvSet
  /\ overlap = FALSE
  /\ input \in DriverValues
  /\ normalized = NoValue
  /\ InitService
  /\ InitCalls

\* one application of transformValue to the input
Normalize ==
  /\ normalized = NoValue
  /\ normalized' = transformValue(input)
  /\ UNCHANGED <<env, overlap, input, svc, drv, callv, locals>>

NextNorm == Normalize

SpecNorm == InitNorm /\ [][NextNorm]_vars

\* ----------------------------------------------------------------- claims
ConnectTools == {"Connect", "ConnectWithEnv"}

\* this step starts a new call in slot c
StartsCall(c) == CanStart(c) /\ ncalls' = ncalls + 1

\* call c is a finished call of one of the given tools that returned a value
Returned(c, tools) == Idle(c) /\ op[c] \in tools /\ outcome[c] = "returned"

\* the config a connect call resolves its argument to
ConfigOf(a) == IF a = NoArg THEN getDefaultConfig ELSE a

Incomplete(cfg) == cfg.uri \in {Null, ""} \/ cfg.username \in {Null, ""} \/ cfg.password \in {Null, ""}

FirstMissingMessage(cfg) ==
  IF cfg.uri \in {Null, ""} THEN <<"Neo4j URI is required">>
  ELSE IF cfg.username \in {Null, ""} THEN <<"Neo4j username is required">>
  ELSE <<"Neo4j password is required">>

LiveHandles == {h \in 1..Len(handles) : handles[h].open}

\* C1: a connect call whose config lacks uri, username or password returns
\* at once the validation error naming the first missing field, and makes
\* no driver call: no handle is created or closed and no session is opened.
C1_ValidationBeforeDriver ==
  [][\A c \in Calls :
       (StartsCall(c) /\ op'[c] \in ConnectTools /\ Incomplete(ConfigOf(arg'[c])))
       => /\ pc'[c] = "idle"
          /\ outcome'[c] = "returned"
          /\ ret'[c].kind = "error"
          /\ ret'[c].error = FirstMissingMessage(ConfigOf(arg'[c]))
          /\ driver' = driver
          /\ handles' = handles
          /\ sessions' = sessions]_vars

\* an incomplete connect returned its validation error while an open handle is held
C1_Witness ==
  \E c \in Calls :
    /\ Returned(c, ConnectTools)
    /\ Incomplete(ConfigOf(arg[c]))
    /\ ~Falsy(arg[c].uri)
    /\ ret[c].kind = "error"
    /\ driver # 0
    /\ handles[driver].open

\* C2: once a disconnect call has completed, status() reports disconnected,
\* a null connection timestamp and a null config.
C2_DisconnectClearsStatus ==
  \A c \in Calls :
    Returned(c, {"Disconnect"})
    => /\ getStatus.status = "disconnected"
       /\ getStatus.connectionTime = 0
       /\ getStatus.config = NullConfig

\* C3: a connect call that returned success leaves status connected, and
\* whenever status is connected the timestamp is set and the last error null.
C3_ConnectedState ==
  /\ \A c \in Calls : (Returned(c, ConnectTools) /\ ret[c] = Void) => connectionStatus = "connected"
  /\ connectionStatus = "connected" => (connectionTime # 0 /\ lastError = Null)

\* a reconnect (a second handle was created) returned success
C3_Witness ==
  \E c \in Calls :
    /\ Returned(c, ConnectTools)
    /\ ret[c] = Void
    /\ connectionStatus = "connected"
    /\ Len(handles) >= 2

\* C4: executeQuery returns the driver-not-initialized error when no handle
\* is held and the not-connected error when a handle is held but status is
\* not connected; either way it opens no session, runs no query and does
\* not throw.
C4_QueryStateErrors ==
  [][\A c \in Calls :
       (StartsCall(c) /\ op'[c] = "Query" /\ (driver = 0 \/ connectionStatus # "connected"))
       => /\ pc'[c] = "idle"
          /\ outcome'[c] = "returned"
          /\ ret'[c].kind = "error"
          /\ ret'[c].error = IF driver = 0
                             THEN <<"Neo4j driver not initialized. Call connect() first.">>
                             ELSE <<"Not connected to Neo4j. Current status: ", connectionStatus>>
          /\ sessions' = sessions
          /\ handles' = handles]_vars

\* executeQuery answered not-connected while a handle is held in status error
C4_Witness ==
  \E c \in Calls :
    /\ Returned(c, {"Query"})
    /\ ret[c].kind = "error"
    /\ ret[c].error = <<"Not connected to Neo4j. Current status: ", "error">>
    /\ driver # 0

\* C5: with non-overlapping calls, every handle that is created and not
\* closed is the one the service holds (so at most one), and a connect that
\* creates a handle has closed every earlier one and holds the new one.
C5_SingleLiveHandle ==
  /\ [](LiveHandles \subseteq {driver})
  /\ [][Len(handles') > Len(handles)
        => /\ \A h \in 1..Len(handles) : ~handles'[h].open
           /\ driver' = Len(handles')]_vars

\* a reconnect closed the first handle and holds the second, which is open
C5_Witness ==
  /\ Len(handles) >= 2
  /\ ~handles[1].open
  /\ driver = 2
  /\ handles[2].open

\* C6: session.close() has been called exactly once on every session whose
\* operation has returned, and never more than once on any session.
C6_SessionsClosedOnce ==
  \A s \in 1..Len(sessions) :
    /\ sessions[s].closes <= 1
    /\ (\A c \in Calls : sess[c] # s) => sessions[s].closes = 1

\* a query failed at the driver, its call returned and its session is closed
C6_Witness ==
  \E c \in Calls :
    /\ Returned(c, {"Query"})
    /\ ret[c].kind = "error"
    /\ ret[c].error[1] = "Error executing Neo4j query: "
    /\ Len(sessions) >= 2
    /\ sessions[Len(sessions)].closes = 1
    /\ \A d \in Calls : Idle(d)

DriverTags == {"int", "node", "rel", "path"}

\* no driver-typed value occurs anywhere inside v
RECURSIVE IsPlain(_)
IsPlain(v) ==
  /\ v.t \notin DriverTags
  /\ v.t = "list" => \A i \in 1..Len(v.items) : IsPlain(v.items[i])
  /\ v.t = "map" => \A k \in DOMAIN v.fields : IsPlain(v.fields[k])

\* C7: the normalized form of any driver value contains no driver-typed
\* value anywhere inside it.
C7_NoDriverTypesRemain == normalized # NoValue => IsPlain(normalized)

\* C8: connect, executeQuery, getDatabaseInfo and disconnect always complete
\* by returning a value, never by raising a fault.
C8_NeverThrows == \A c \in Calls : outcome[c] # "threw"

HasStackItem(content) == \E i \in 1..Len(content) : content[i].type = "text" /\ content[i].text[1] = "Stack trace: "

\* C9: in production no error result of connect, executeQuery or
\* getDatabaseInfo carries a stack trace and no Query or GetDatabaseInfo
\* tool response contains one.
C9_NoStackInProduction ==
  env.NODE_ENV = "production"
  => \A c \in Calls :
       /\ (Returned(c, ConnectTools \cup {"Query", "GetDatabaseInfo"}) /\ ret[c].kind = "error") => ret[c].stack = Null
       /\ Returned(c, {"Query", "GetDatabaseInfo"}) => ~HasStackItem(resp[c])

\* C10: status() does not depend on the stored password and carries no
\* password field: replacing the password of the stored config by any
\* other leaves the value of status() the same.
C10_StatusHidesPassword ==
  /\ "password" \notin DOMAIN getStatus.config
  /\ config # NullConfig
     => \A p \in PasswordSet :
          StatusOf(connectionStatus, [config EXCEPT !.password = p], connectionTime, lastError) = getStatus
  /\ \A c \in Calls : Returned(c, {"GetConnectionStatus"}) => "password" \notin DOMAIN ret[c].config

\* status() was read while connected with a stored password
C10_Witness ==
  \E c \in Calls :
    /\ Returned(c, {"GetConnectionStatus"})
    /\ ret[c].status = "connected"
    /\ config # NullConfig
    /\ config.password = "pw2"

HasItem(content, label) == \E i \in 1..Len(content) : content[i].type = "text" /\ content[i].text[1] = label

\* C11: the GetConnectionStatus response reports the status the service has
\* as one of connected, disconnected and error (its status line reads
\* Connected only for connected and Disconnected only for disconnected),
\* with the uri and database when connected and the last error when set.
C11_StatusToolReportsEnum ==
  \A c \in Calls :
    Returned(c, {"GetConnectionStatus"})
    => /\ ret[c] = getStatus
       /\ resp[c][1].text[1] = "Connection Status: "
       /\ resp[c][1].text[2] = "Connected" <=> ret[c].status = "connected"
       /\ resp[c][1].text[2] = "Disconnected" <=> ret[c].status = "disconnected"
       /\ ret[c].status = "connected" => (HasItem(resp[c], "Connected to: ") /\ HasItem(resp[c], "Database: "))
       /\ ~Falsy(ret[c].lastError) => HasItem(resp[c], "Last error: ")

\* C12: when connect's verification query fails, connect returns an error
\* result, status is error, the last error is the verification failure's
\* message, the verification session is closed and the newly created
\* handle is still held and open.
C12_VerificationFailureRecorded ==
  [][\A c \in Calls :
       (pc[c] = "connect_sclose" /\ pend[c].kind = "error" /\ pc'[c] = "idle")
       => /\ outcome'[c] = "returned"
          /\ ret'[c].kind = "error"
          /\ connectionStatus' = "error"
          /\ lastError' = pend[c].error[2]
          /\ sessions'[sess[c]].closes = 1
          /\ driver' = sessions[sess[c]].handle
          /\ handles'[driver'].open]_vars

\* What does hold around C12: the step in which the verification query fails sets
\* status error and the last error to the failure's message, closes the
\* verification session and keeps the new handle held and open; connect
\* then returns an error result whose message is the last error, which is
\* the verification failure's unless closing the session failed as well.
VerificationFailureStepwise ==
  [][\A c \in Calls :
       /\ (pc[c] = "connect_run" /\ pend'[c].kind = "error")
          => /\ connectionStatus' = "error"
             /\ pend'[c].error = <<"Connection test failed: ", lastError'>>
             /\ \E e \in DriverErrors : lastError' = e.message
             /\ sessions'[sess[c]].closes = 1
             /\ driver' = sessions[sess[c]].handle
             /\ handles' = handles
             /\ handles[driver].open
       /\ (pc[c] = "connect_sclose" /\ pend[c].kind = "error" /\ pc'[c] = "idle")
          => /\ outcome'[c] = "returned"
             /\ ret'[c].kind = "error"
             /\ connectionStatus' = "error"
             /\ lastError' = ret'[c].error[2]
             /\ ret'[c] = pend[c] \/ ret'[c].error[1] = "Failed to connect to Neo4j: "
             /\ ret'[c] = pend[c] => lastError' = pend[c].error[2]
             /\ sessions'[sess[c]].closes = 1
             /\ driver' = sessions[sess[c]].handle
             /\ handles'[driver'].open]_vars

\* connect returned the test-failed result; the new handle is held and open
VerificationFailureReturned ==
  \E c \in Calls :
    /\ Returned(c, ConnectTools)
    /\ ret[c].kind = "error"
    /\ ret[c].error = <<"Connection test failed: ", lastError>>
    /\ connectionStatus = "error"
    /\ driver = Len(handles)
    /\ driver # 0
    /\ handles[driver].open

ReadTools == {"Query", "GetDatabaseInfo", "GetConnectionStatus"}

IsPrefix(s, t) == Len(s) <= Len(t) /\ \A i \in 1..Len(s) : s[i] = t[i]

\* version/edition, database name, counts, label list, relationship types
AdminOrder == <<"CALL dbms.components()", "CALL db.info()", "MATCH (n) RETURN count", "CALL db.labels()", "CALL db.relationshipTypes()">>

CarriesProperties(r, p, own) ==
  /\ r.t = "map"
  /\ DOMAIN r.fields = DOMAIN p \cup own
  /\ \A k \in DOMAIN p \ own : r.fields[k] = p[k]

\* C15: the normalized form of a Node has every property key of the node
\* with its value, id equal to the numeric identity and labels equal to the
\* label list in the driver's order; id and labels carry the identity and
\* the label list even when the node has properties named id or labels.
C15_NodeNormalForm ==
  (input.t = "node" /\ normalized # NoValue)
    => /\ CarriesProperties(normalized, input.properties, {"id", "labels"})
       /\ normalized.fields["id"] = Num(input.identity.v)
       /\ normalized.fields["labels"] = input.labels

\* a node that has properties named id and labels of its own was normalized
C15_Witness ==
  /\ input.t = "node"
  /\ {"id", "labels"} \subseteq DOMAIN input.properties
  /\ input.labels = List(<<Str("B"), Str("A")>>)
  /\ normalized # NoValue
  /\ normalized.fields["id"] = Num(7)

\* C16: the normalized form of a Relationship has every property key of the
\* relationship with its value, id, startNodeId and endNodeId equal to the
\* numeric identity, start and end, and type equal to its type string; with
\* empty properties it has exactly these four keys.
C16_RelationshipNormalForm ==
  (input.t = "rel" /\ normalized # NoValue)
    => /\ CarriesProperties(normalized, input.properties, {"id", "type", "startNodeId", "endNodeId"})
       /\ normalized.fields["id"] = Num(input.identity.v)
       /\ normalized.fields["startNodeId"] = Num(input.start.v)
       /\ normalized.fields["endNodeId"] = Num(input.end.v)
       /\ normalized.fields["type"] = input.type
       /\ input.properties = EmptyObject
            => DOMAIN normalized.fields = {"id", "type", "startNodeId", "endNodeId"}

\* a relationship without properties was normalized to its four keys
C16_Witness ==
  /\ input.t = "rel"
  /\ input.properties = EmptyObject
  /\ normalized # NoValue
  /\ normalized.fields["endNodeId"] = Num(2)
  /\ Cardinality(DOMAIN normalized.fields) = 4

\* C17: a value built only from null, booleans, numbers, strings, sequences
\* and string-keyed mappings is returned structurally equal by normalization.
C17_PlainRoundTrip ==
  (IsPlain(input) /\ normalized # NoValue) => normalized = input

\* some mapping inside v owns a key named constructor
RECURSIVE HasConstructorKey(_)
HasConstructorKey(v) ==
  \/ v.t = "map" /\ "constructor" \in DOMAIN v.fields
  \/ v.t = "map" /\ \E k \in DOMAIN v.fields : HasConstructorKey(v.fields[k])
  \/ v.t = "list" /\ \E i \in 1..Len(v.items) : HasConstructorKey(v.items[i])

\* away from mappings that own a key named constructor the round trip holds
PlainRoundTripWithoutConstructorKey ==
  (IsPlain(input) /\ ~HasConstructorKey(input) /\ normalized # NoValue) => normalized = input

\* C18: from any state, a connect call with a complete config during which
\* every driver call succeeds ends with status connected, the previously
\* held handle closed and the newly created handle held; such a call ends
\* otherwise only with the error of a driver call that failed.
C18_ConnectReachesConnected ==
  /\ [](\A c \in Calls :
          /\ (Returned(c, ConnectTools) /\ ret[c] = Void)
             => /\ connectionStatus = "connected"
                /\ driver = Len(handles)
                /\ driver # 0
                /\ handles[driver].open
                /\ handles[driver].cfg = ConfigOf(arg[c])
                /\ \A h \in 1..(driver - 1) : ~handles[h].open
          /\ pc[c] = "connect_run" => CanSucceed(sess[c]))
  /\ [][\A c \in Calls :
          ((StartsCall(c) \/ ~Idle(c)) /\ pc'[c] = "idle" /\ op'[c] \in ConnectTools /\ ~Incomplete(ConfigOf(arg'[c])))
            => /\ outcome'[c] = "returned"
               /\ \/ ret'[c] = Void
                  \/ \E e \in DriverErrors :
                       /\ ret'[c].kind = "error"
                       /\ ret'[c].error \in {<<"Failed to connect to Neo4j: ", e.message>>, <<"Connection test failed: ", e.message>>}
                       /\ connectionStatus' = "error"]_vars

\* a connect call made while a handle was held succeeded: the old handle is
\* closed and the new one, opened with the call's config, is held
C18_Witness ==
  \E c \in Calls :
    /\ Returned(c, ConnectTools)
    /\ ret[c] = Void
    /\ Len(handles) = 2
    /\ driver = 2
    /\ ~handles[1].open
    /\ handles[2].open
    /\ handles[2].cfg = ConfigOf(arg[c])
    /\ connectionStatus = "connected"

\* C19: whenever status is connected, the stored configuration is the one
\* with which the currently held handle was opened, and it changes only in
\* a step of a connect call that opens a new handle.
C19_ConfigIsHandleConfig ==
  /\ [](connectionStatus = "connected" => (driver # 0 /\ config = handles[driver].cfg))
  /\ [][(connectionStatus = "connected" /\ config' # config) => Len(handles') = Len(handles) + 1]_vars

\* C20: the connection timestamp is set only if status is connected.
C20_TimestampOnlyWhenConnected == connectionTime # 0 => connectionStatus = "connected"

\* C21: apart from connect's verification query, a session is open with a
\* query in flight only while a handle is held and status is connected:
\* getDatabaseInfo and executeQuery do not reach the driver in status
\* disconnected or error.
C21_NoQueryUnlessConnected ==
  \A c \in Calls :
    pc[c] \in {"query_run", "info_run"} => (driver # 0 /\ connectionStatus = "connected")

\* ------------------------------------------------------- overlapping calls
\* the transport dispatches a tool invocation while another is still at an
\* await point
InitOverlap ==
  /\ env \in EnvSet
  /\ overlap = TRUE
  /\ input = NullV
  /\ normalized = NoValue
  /\ InitService
  /\ InitCalls

SpecOverlap == InitOverlap /\ [][Next]_vars

\* C22: when an executeQuery call overlaps a connect call, the query is
\* issued on a handle that no connect call has asked to close and whose
\* verification query is not still pending.
C22_QueryOnlyOnVerifiedHandle ==
  [][\A c \in Calls :
       (StartsCall(c) /\ pc'[c] = "query_run")
         => /\ \A d \in Calls : ~(pc[d] = "connect_close" /\ hcl[d] = driver)
            /\ \A d \in Calls : ~(pc[d] = "connect_run" /\ sessions[sess[d]].handle = driver)]_vars

\* C23: when connect and disconnect calls overlap, once all calls have
\* returned every handle that was created and not closed is the handle held
\* by the service, so at most one handle is open.
C23_NoOrphanHandle ==
  (\A c \in Calls : Idle(c)) => LiveHandles \subseteq {driver}

====
